---- MODULE Spec2Model ----
(***************************************************************************)
(* Group-invite workflow and content workflows (items, messages,           *)
(* attachments, reactions and their deletion) of the backend               *)
(* (app/crud.py, app/main.py).                                             *)
(*                                                                         *)
(* The database holds the committed rows of its tables; the blob store     *)
(* holds the uploaded files.  Every request runs in its own                *)
(* SQLAlchemy session (sessionmaker(autocommit=False, autoflush=False)):   *)
(* what a request adds or changes stays in its session until db.commit()   *)
(* and becomes visible to the other requests at that commit, all at once.  *)
(* A request is a process; its steps are the points at which it reads the  *)
(* database or the clock, or commits.                                      *)
(***************************************************************************)
EXTENDS Integers, FiniteSets, Sequences, Bags, TLC

\* ---------------------------------------------------------------- bounds
\* create_group_invite is called at most MaxInvites times.
MaxInvites == 2

\* Blobs are uploaded at most MaxBlobs times.
MaxBlobs == 3

\* The hex part of a blob name has at most MaxNameLen characters.
MaxNameLen == 3

\* Python's None, for Optional[datetime] and Optional[int] columns.
None == 0 - 1

Users == {1, 2}
Creators == {1}
Inviters == {1}
GroupIds == {1, 2}
Procs == {"r1", "r2"}
\* The readings of the clock.
Times == {0, 1}
\* expires_at as callers pass it: absent, or a time of the clock.
ExpiryInputs == {None, 0}

\* str(uuid.uuid4()): a fresh value per call, never the row id.
uuid4(n) == 100 + n
Tokens == {uuid4(n) : n \in 1..MaxInvites}
InviteIds == 1..MaxInvites

\* The autoincrement columns, and the caps of the rows ever inserted.
ItemIds == {1}
ThreadIds == {1}
ImageIds == {1, 2}
MessageIds == {1, 2}
AttachmentIds == {1, 2}
ReactionIds == {1, 2}
Tables == {"item", "image", "thread", "message", "attachment", "reaction",
           "blob"}
ReactionTypes == {"like", "heart"}

\* blob_client.url of the n-th upload: a fresh name per upload (uuid4 for an
\* attachment, os.urandom(16).hex() for an item image).
BlobUrl(n) == 200 + n

VARIABLES
    now,                 \* datetime.utcnow()
    family_groups,       \* committed rows of family_groups (their group_id)
    user_family_groups,  \* committed rows of user_family_groups, a bag
    group_invites,       \* committed rows of group_invites
    next_invite_id,      \* the autoincrement of group_invites.invite_id
    items,               \* committed rows of items
    item_images,         \* committed rows of item_images
    threads,             \* committed rows of threads
    messages,            \* committed rows of messages
    message_attachments, \* committed rows of message_attachments
    message_reactions,   \* committed rows of message_reactions
    blobs,               \* the urls of the blobs in the blob store
    uploaded,            \* an upload: the container and blob name, and its url
    derived,             \* the container and blob name a delete derived
    next_id,             \* the autoincrements of the tables above
    pc,                  \* where each request stands
    req,                 \* each request's arguments and session state
    last                 \* the call that returned in the latest step, if one did

vars == <<now, family_groups, user_family_groups, group_invites,
          next_invite_id, items, item_images, threads, messages,
          message_attachments, message_reactions, blobs, uploaded, derived,
          next_id, pc, req, last>>

db == <<family_groups, user_family_groups, group_invites, next_invite_id>>

\* The tables of the content workflows, and the blob store.
relations == <<items, item_images, threads, messages, message_attachments,
               message_reactions>>
content == <<relations, blobs, next_id>>

\* One upload and the delete of its url, looked at on their own.
urls == <<uploaded, derived>>

\* ---------------------------------------------------------------- rows
UserFamilyGroup(user_id, group_id, role) ==
    [user_id |-> user_id, group_id |-> group_id, role |-> role]

\* Column defaults of a new group_invites row that the constructor call
\* leaves unset.
GroupInviteDefaults ==
    [used |-> FALSE, used_at |-> None, invited_user_id |-> None]

GroupInvite(invite_id, group_id, token, inviter_user_id, expires_at) ==
    [invite_id |-> invite_id, group_id |-> group_id, token |-> token,
     inviter_user_id |-> inviter_user_id, expires_at |-> expires_at,
     used |-> GroupInviteDefaults.used,
     used_at |-> GroupInviteDefaults.used_at,
     invited_user_id |-> GroupInviteDefaults.invited_user_id]

\* ---------------------------------------------------------------- queries
MembershipRows(table, user_id, group_id) ==
    {m \in BagToSet(table) : m.user_id = user_id /\ m.group_id = group_id}

\* Number of rows of the table with this (user_id, group_id).
MembershipCount(table, user_id, group_id) ==
    LET rows == MembershipRows(table, user_id, group_id)
        Sum[S \in SUBSET rows] ==
            IF S = {} THEN 0
            ELSE LET r == CHOOSE x \in S : TRUE
                 IN CopiesIn(r, table) + Sum[S \ {r}]
    IN Sum[rows]

\* Mutant: the lookup returns an invite whatever the token.
AnyGroupInvite(invites, token) ==
    IF invites # {} THEN CHOOSE i \in invites : TRUE ELSE [invite_id |-> None]

\* db.query(GroupInvite).filter(GroupInvite.token == token).first()
get_group_invite_by_token(invites, token) ==
    IF \E i \in invites : i.token = token
    THEN CHOOSE i \in invites : i.token = token
    ELSE [invite_id |-> None]

InviteById(invites, invite_id) ==
    CHOOSE i \in invites : i.invite_id = invite_id

\* GET /users/{user_id}/groups: the group ids of the user's membership rows
\* joined with family_groups, one entry per row.
get_user_groups(table, groups, user_id) ==
    LET rows == {m \in BagToSet(table) :
                    m.user_id = user_id /\ m.group_id \in groups}
        Gather[S \in SUBSET rows] ==
            IF S = {} THEN EmptyBag
            ELSE LET r == CHOOSE x \in S : TRUE
                 IN [g \in {r.group_id} |-> CopiesIn(r, table)]
                    (+) Gather[S \ {r}]
    IN Gather[rows]

\* ---------------------------------------------------------------- requests
NullReq ==
    [op |-> "none", token |-> None, user_id |-> None, invite_id |-> None,
     group_id |-> None, add |-> FALSE, used_at |-> None]

\* A call that returned: what was asked and what came back.
NoCall ==
    [op |-> "none", key |-> None, user_id |-> None, expires_at |-> None,
     status |-> "none", id |-> None]

\* key: the token, group_id or invite_id the call was made with;
\* id: the row the call returned, when it returned one.
Call(op, key, user_id, status, id) ==
    [op |-> op, key |-> key, user_id |-> user_id, expires_at |-> None,
     status |-> status, id |-> id]

\* No upload was made; no blob was named.
NoUpload == [kind |-> "none", container |-> << >>, blob |-> << >>, url |-> << >>]
NoBlob == [container |-> << >>, blob |-> << >>]

Finish(p, call) ==
    /\ pc' = [pc EXCEPT ![p] = "idle"]
    /\ req' = [req EXCEPT ![p] = NullReq]
    /\ last' = call

Init ==
    /\ now = 0
    /\ family_groups = {}
    /\ user_family_groups = EmptyBag
    /\ group_invites = {}
    /\ next_invite_id = 1
    /\ items = {}
    /\ item_images = {}
    /\ threads = {}
    /\ messages = {}
    /\ message_attachments = {}
    /\ message_reactions = {}
    /\ blobs = {}
    /\ uploaded = NoUpload
    /\ derived = NoBlob
    /\ next_id = [t \in Tables |-> 1]
    /\ pc = [p \in Procs |-> "idle"]
    /\ req = [p \in Procs |-> NullReq]
    /\ last = NoCall

\* The wall clock advances.
Tick ==
    /\ now + 1 \in Times
    /\ now' = now + 1
    /\ last' = NoCall
    /\ UNCHANGED <<urls, db, content, pc, req>>

\* ------------------------------------------------------------ the session
\* Mutant: user_family_groups without its primary key.
PrimaryKeyUnchecked(table, row) == TRUE

\* UserFamilyGroup.user_id and .group_id are both primary_key=True: an INSERT
\* of a second row with the same pair raises IntegrityError.
PrimaryKeyFree(table, row) ==
    MembershipRows(table, row.user_id, row.group_id) = {}

\* Mutant: a session that commits each statement as it is sent.
FlushedTableAutocommit(table, row) == table (+) SetToBag({row})

\* sessionmaker(autocommit=False): an INSERT flushed by a session changes no
\* committed row until the session commits.
FlushedTable(table, row) == table

\* db.commit(): the session's INSERT becomes a committed row.
CommittedTable(table, row, add) ==
    IF add THEN table (+) SetToBag({row}) ELSE table

\* A row another session has inserted and not yet committed holds the key:
\* an INSERT of the same key waits for that session to end.
KeyHeldByOther(p, row) ==
    \E q \in Procs \ {p} :
        /\ pc[q] = "commit"
        /\ req[q].add
        /\ req[q].user_id = row.user_id
        /\ req[q].group_id = row.group_id

\* ------------------------------------------------------------ create_group
\* POST /grouping, first commit: the family_groups row.
create_group_commit_group(p, user_id) ==
    /\ pc[p] = "idle"
    /\ Cardinality(family_groups) < Cardinality(GroupIds)
    /\ LET group_id == Cardinality(family_groups) + 1
       IN /\ family_groups' = family_groups \cup {group_id}
          /\ req' = [req EXCEPT ![p] = [NullReq EXCEPT !.op = "create_group",
                        !.user_id = user_id, !.group_id = group_id]]
    /\ pc' = [pc EXCEPT ![p] = "membership"]
    /\ last' = NoCall
    /\ UNCHANGED <<urls, now, user_family_groups, group_invites, next_invite_id,
                   content>>

\* POST /grouping, second commit: the creator's poster row.
create_group_commit_membership(p) ==
    /\ pc[p] = "membership"
    /\ LET row == UserFamilyGroup(req[p].user_id, req[p].group_id, "poster")
       IN IF PrimaryKeyFree(user_family_groups, row)
          THEN /\ user_family_groups' = CommittedTable(user_family_groups, row, TRUE)
               /\ Finish(p, Call("create_group", None, req[p].user_id, "group",
                                 req[p].group_id))
          ELSE /\ UNCHANGED user_family_groups
               /\ Finish(p, Call("create_group", None, req[p].user_id,
                                 "IntegrityError", req[p].group_id))
    /\ UNCHANGED <<urls, now, family_groups, group_invites, next_invite_id,
                   content>>

\* ------------------------------------------------------ create_group_invite
\* Mutant: the expiry is computed from the time of issue.
InviteExpiryTTL(expires_at, t) == t + 7

\* The expiry stored with a new invite: the caller's optional argument.
InviteExpiry(expires_at, t) == expires_at

\* Mutant: an unused, non-expired invite of the group and inviter is reused.
IssuedInvitesIdempotent(invites, invite_id, group_id, inviter_user_id, expires_at, t) ==
    IF \E i \in invites :
          /\ i.group_id = group_id
          /\ i.inviter_user_id = inviter_user_id
          /\ ~i.used
          /\ ~(i.expires_at # None /\ i.expires_at < t)
    THEN invites
    ELSE invites \cup {GroupInvite(invite_id, group_id, uuid4(invite_id),
                                   inviter_user_id, expires_at)}

\* The rows create_group_invite leaves in group_invites.
IssuedInvites(invites, invite_id, group_id, inviter_user_id, expires_at, t) ==
    invites \cup {GroupInvite(invite_id, group_id, uuid4(invite_id),
                              inviter_user_id, InviteExpiry(expires_at, t))}

create_group_invite(p, group_id, inviter_user_id, expires_at) ==
    /\ pc[p] = "idle"
    /\ next_invite_id <= MaxInvites
    /\ group_id \in family_groups
    /\ group_invites' = IssuedInvites(group_invites, next_invite_id, group_id,
                                      inviter_user_id, expires_at, now)
    /\ next_invite_id' = next_invite_id + 1
    /\ last' = [Call("create_group_invite", group_id, inviter_user_id,
                     "invite", next_invite_id) EXCEPT !.expires_at = expires_at]
    /\ UNCHANGED <<urls, now, family_groups, user_family_groups, content, pc, req>>

\* ------------------------------------------------------ accept_group_invite
\* Mutant: an invite is refused from its expiry time on.
RefusedAtExpiry(invite, t) ==
    invite.used \/ (invite.expires_at # None /\ invite.expires_at <= t)

\* Mutant: the used flag is not checked.
RefusedIgnoringUsed(invite, t) ==
    invite.expires_at # None /\ invite.expires_at < t

\* Mutant: the expiry is not checked.
RefusedIgnoringExpiry(invite, t) == invite.used

\* `invite.used or (invite.expires_at and invite.expires_at < utcnow())`
Refused(invite, t) ==
    invite.used \/ (invite.expires_at # None /\ invite.expires_at < t)

\* Mutant: the membership query is skipped.
ExistingNever(table, user_id, invite) == FALSE

\* Mutant: the membership query looks at every group.
ExistingAnyGroup(table, user_id, invite) ==
    \E m \in BagToSet(table) : m.user_id = user_id

\* The membership query: a row of the user in the invite's group.
Existing(table, user_id, invite) ==
    MembershipRows(table, user_id, invite.group_id) # {}

\* Mutant: the new member gets the creator's role.
NewMembershipPoster(user_id, group_id) ==
    UserFamilyGroup(user_id, group_id, "poster")

\* The row accept_group_invite adds for a user who is not yet a member.
NewMembership(user_id, group_id) ==
    UserFamilyGroup(user_id, group_id, "viewer")

\* Mutant: the refusal tells a used invite from an expired one.
RefusedResultByKind(invite, t) ==
    IF invite.used THEN "Conflict" ELSE "Expired"

\* What accept_group_invite returns when it refuses.
RefusedResult(invite, t) == "None"

\* Mutant: the time of the redemption is not recorded.
RedeemedWithoutTime(invite, user_id, used_at) ==
    [invite EXCEPT !.used = TRUE, !.invited_user_id = user_id]

\* The invite row as accept_group_invite leaves it.
Redeemed(invite, user_id, used_at) ==
    [invite EXCEPT !.used = TRUE, !.used_at = used_at,
                   !.invited_user_id = user_id]

\* Lines 334-339: what accept_group_invite returns without going further,
\* or "proceed".
accept_refusal(invites, token, t) ==
    LET invite == get_group_invite_by_token(invites, token)
    IN IF invite.invite_id = None THEN "None"
       ELSE IF Refused(invite, t) THEN RefusedResult(invite, t)
       ELSE "proceed"

\* Lines 334-352: the lookup, the checks (the expiry check reads the clock),
\* the membership query and db.add.
accept_query(p, token, user_id) ==
    /\ pc[p] = "idle"
    /\ LET invite == get_group_invite_by_token(group_invites, token)
           refusal == accept_refusal(group_invites, token, now)
       IN IF refusal # "proceed"
          THEN Finish(p, Call("accept_group_invite", token, user_id,
                              refusal, None))
          ELSE /\ pc' = [pc EXCEPT ![p] = "flush"]
               /\ req' = [req EXCEPT ![p] =
                     [op |-> "accept_group_invite", token |-> token,
                      user_id |-> user_id, invite_id |-> invite.invite_id,
                      group_id |-> invite.group_id,
                      add |-> ~Existing(user_family_groups, user_id, invite),
                      used_at |-> None]]
               /\ last' = NoCall
    /\ UNCHANGED <<urls, now, db, content>>

\* Lines 355-359, up to the first statement of the flush: the invite is
\* marked in the session (used_at reads the clock), db.commit() starts and
\* sends the INSERT of the new membership row, when there is one.
accept_flush(p) ==
    /\ pc[p] = "flush"
    /\ LET row == NewMembership(req[p].user_id, req[p].group_id)
       IN IF ~req[p].add
          THEN /\ UNCHANGED user_family_groups
               /\ pc' = [pc EXCEPT ![p] = "commit"]
               /\ req' = [req EXCEPT ![p].used_at = now]
               /\ last' = NoCall
          ELSE /\ ~KeyHeldByOther(p, row)
               /\ IF PrimaryKeyFree(user_family_groups, row)
                  THEN /\ user_family_groups' =
                              FlushedTable(user_family_groups, row)
                       /\ pc' = [pc EXCEPT ![p] = "commit"]
                       /\ req' = [req EXCEPT ![p].used_at = now]
                       /\ last' = NoCall
                  ELSE /\ UNCHANGED user_family_groups
                       /\ Finish(p, Call("accept_group_invite", req[p].token,
                                         req[p].user_id, "IntegrityError", None))
    /\ UNCHANGED <<urls, now, family_groups, group_invites, next_invite_id,
                   content>>

\* Line 359, the rest of db.commit(): UPDATE of the invite row and COMMIT; then
\* db.refresh(invite) and the return.
accept_commit(p) ==
    /\ pc[p] = "commit"
    /\ IF \E i \in group_invites : i.invite_id = req[p].invite_id
       THEN LET invite == InviteById(group_invites, req[p].invite_id)
                row == NewMembership(req[p].user_id, req[p].group_id)
            IN /\ user_family_groups' =
                      CommittedTable(user_family_groups, row, req[p].add)
               /\ group_invites' = (group_invites \ {invite}) \cup
                      {Redeemed(invite, req[p].user_id, req[p].used_at)}
               /\ Finish(p, Call("accept_group_invite", req[p].token,
                                 req[p].user_id, "invite", invite.invite_id))
       ELSE \* the row was deleted meanwhile: the UPDATE matches no row
            /\ UNCHANGED <<user_family_groups, group_invites>>
            /\ Finish(p, Call("accept_group_invite", req[p].token,
                              req[p].user_id, "StaleDataError", None))
    /\ UNCHANGED <<urls, now, family_groups, next_invite_id, content>>

\* ------------------------------------------------------ preview invite
\* The lookup of a preview: crud.get_group_invite_by_token.
PreviewedInvite(invites, token) == get_group_invite_by_token(invites, token)

\* What a preview answers: NotFound for an unknown token, Expired for an
\* invite past its expiry, otherwise the preview of the invite.
preview_result(invites, token, t) ==
    LET invite == PreviewedInvite(invites, token)
    IN IF invite.invite_id = None THEN "NotFound"
       ELSE IF invite.expires_at # None /\ invite.expires_at < t
            THEN "Expired"
       ELSE "preview"

\* Preview invite (token, requesting user): the invite is looked up and its
\* group and inviter are returned, with whether the requesting user belongs
\* to any group. Nothing is written.
preview_invite(p, token, user_id) ==
    /\ pc[p] = "idle"
    /\ LET invite == PreviewedInvite(group_invites, token)
           status == preview_result(group_invites, token, now)
       IN last' = [op |-> "preview_invite", key |-> token,
                   user_id |-> user_id, expires_at |-> None,
                   status |-> status,
                   id |-> IF status = "preview" THEN invite.group_id ELSE None,
                   inviter_user_id |->
                       IF status = "preview" THEN invite.inviter_user_id
                       ELSE None,
                   already_member |->
                       \E m \in BagToSet(user_family_groups) :
                           m.user_id = user_id]
    /\ UNCHANGED <<urls, now, db, content, pc, req>>

\* ------------------------------------------------------ revoke_group_invite
revoke_group_invite(p, invite_id) ==
    /\ pc[p] = "idle"
    /\ LET rows == {i \in group_invites : i.invite_id = invite_id}
       IN /\ group_invites' = group_invites \ rows
          /\ last' = Call("revoke_group_invite", invite_id, None,
                          IF rows # {} THEN "True" ELSE "False", None)
    /\ UNCHANGED <<urls, now, family_groups, user_family_groups, next_invite_id,
                   content, pc, req>>

\* ------------------------------------------------------------ failures
\* A statement of an open transaction fails after its first one was sent
\* (connection lost, server error): the exception leaves the handler and the
\* session ends without a commit.
session_failure(p) ==
    /\ pc[p] \in {"commit", "membership"}
    /\ Finish(p, Call(req[p].op, req[p].token, req[p].user_id,
                      "OperationalError", None))
    /\ UNCHANGED <<urls, now, db, content>>

\* ------------------------------------------------------------ content rows
\* The columns the workflows read; the others (names, texts) are left out.
Item(item_id) == [item_id |-> item_id]

ItemImage(image_id, item_id, image_url) ==
    [image_id |-> image_id, item_id |-> item_id, image_url |-> image_url]

Thread(thread_id, item_id) == [thread_id |-> thread_id, item_id |-> item_id]

Message(message_id, thread_id, parent_message_id) ==
    [message_id |-> message_id, thread_id |-> thread_id,
     parent_message_id |-> parent_message_id]

MessageAttachment(attachment_id, message_id, attachment_url) ==
    [attachment_id |-> attachment_id, message_id |-> message_id,
     attachment_url |-> attachment_url]

MessageReaction(reaction_id, message_id, user_id, reaction_type, created_at) ==
    [reaction_id |-> reaction_id, message_id |-> message_id,
     user_id |-> user_id, reaction_type |-> reaction_type,
     created_at |-> created_at]

\* ------------------------------------------------------------ content queries
\* db.query(Item).filter(Item.item_id == item_id)
get_item(table, item_id) == {i \in table : i.item_id = item_id}

\* db.query(ItemImage).filter(ItemImage.item_id == item_id).all()
get_item_images(table, item_id) == {g \in table : g.item_id = item_id}

\* db.query(Thread).filter(Thread.item_id == item_id)
get_thread_by_item(table, item_id) == {t \in table : t.item_id = item_id}

\* db.query(Message).filter(Message.message_id == message_id)
get_message(table, message_id) == {m \in table : m.message_id = message_id}

\* db.query(MessageAttachment).filter(
\*     MessageAttachment.message_id == message_id).all()
get_attachments_by_message_id(table, message_id) ==
    {a \in table : a.message_id = message_id}

get_reactions_by_message(table, message_id) ==
    {r \in table : r.message_id = message_id}

\* The rows of a (message, user) pair.
ReactionsOfPair(table, message_id, user_id) ==
    {r \in table : r.message_id = message_id /\ r.user_id = user_id}

\* The messages of the threads of an item.
ThreadMessages(msgs, thrs, item_id) ==
    {m \in msgs : \E t \in get_thread_by_item(thrs, item_id) :
                      m.thread_id = t.thread_id}

\* The urls that uploads have returned so far.
UploadedUrls == {BlobUrl(n) : n \in 1..(next_id["blob"] - 1)}

\* ------------------------------------------------------------ content requests
ContentReq(op, key) ==
    [op |-> op, key |-> key, user_id |-> None, reaction_type |-> "none",
     found |-> FALSE, pending |-> {}, attempts |-> EmptyBag,
     warnings |-> EmptyBag, deleted |-> {}, target |-> None]

\* A call of a content workflow that returned: what was asked, what came
\* back, the blob deletes it attempted and the warnings it logged.
Reply(op, key, user_id, status, id, attempts, warnings) ==
    [op |-> op, key |-> key, user_id |-> user_id, expires_at |-> None,
     status |-> status, id |-> id, arg |-> None, attempts |-> attempts,
     warnings |-> warnings]

\* A reply of a call that deletes no blob.
Plain(op, key, user_id, status, id) ==
    Reply(op, key, user_id, status, id, EmptyBag, EmptyBag)

\* ------------------------------------------------------------ constraints
\* Mutant: a table without its foreign key.
ForeignKeyUnchecked(parents) == TRUE

\* ForeignKey(...) of a column: an INSERT is accepted when the row it names
\* exists, and raises IntegrityError otherwise.
ForeignKeyHolds(parents) == parents # {}

\* ------------------------------------------------------------ create_new_item
\* ItemRecognitionService.upload_image: ok when upload_blob returned, and
\* then the blob is in the store; otherwise the call raised.
upload_image(store, url, ok) == IF ok THEN store \cup {url} ELSE store

\* Mutant: the handler goes on after a failed upload.
UploadFailureSwallowed(ok) == FALSE

\* Lines 653-693: an exception of upload_image leaves the try block; the
\* handler answers 500 and create_item is not called.
UploadAborts(ok) == ~ok

\* POST /items, lines 655-656: the image is uploaded before any row is made.
\* ok: upload_image returned; otherwise it raised and the handler answers 500.
create_new_item_upload(p, ok) ==
    /\ pc[p] = "idle"
    /\ next_id["blob"] <= MaxBlobs
    /\ next_id["item"] \in ItemIds
    /\ next_id["image"] \in ImageIds
    /\ blobs' = upload_image(blobs, BlobUrl(next_id["blob"]), ok)
    /\ IF UploadAborts(ok)
       THEN /\ UNCHANGED next_id
            /\ Finish(p, Plain("create_new_item", None, None, "HTTP 500", None))
       ELSE /\ next_id' = [next_id EXCEPT !["blob"] = @ + 1]
            /\ pc' = [pc EXCEPT ![p] = "create_item"]
            /\ req' = [req EXCEPT ![p] =
                  [ContentReq("create_new_item", None) EXCEPT
                      !.target = BlobUrl(next_id["blob"])]]
            /\ last' = NoCall
    /\ UNCHANGED <<urls, now, db, relations>>

\* Mutant: the thread is left to a later request.
ItemThreadsLater(table, thread_id, item_id) == table

\* The thread rows create_item leaves: the item's thread, in the transaction
\* of the item.
ItemThreads(table, thread_id, item_id) ==
    table \cup {Thread(thread_id, item_id)}

\* crud.create_item: the item row (flushed for its id), its first image row
\* and its thread row, committed by one db.commit().
create_item(p) ==
    /\ pc[p] = "create_item"
    /\ LET item_id == next_id["item"]
       IN /\ items' = items \cup {Item(item_id)}
          /\ item_images' = item_images \cup
                {ItemImage(next_id["image"], item_id, req[p].target)}
          /\ threads' = ItemThreads(threads, next_id["thread"], item_id)
          /\ next_id' = [next_id EXCEPT !["item"] = @ + 1,
                            !["image"] = @ + 1, !["thread"] = @ + 1]
          /\ Finish(p, Plain("create_new_item", item_id, None, "item", item_id))
    /\ UNCHANGED <<urls, now, db, messages, message_attachments, message_reactions,
                   blobs>>

\* crud.add_item_image, with a url an upload returned.
add_item_image(p, item_id, image_url) ==
    /\ pc[p] = "idle"
    /\ next_id["image"] \in ImageIds
    /\ image_url \in UploadedUrls
    /\ IF ForeignKeyHolds(get_item(items, item_id))
       THEN /\ item_images' = item_images \cup
                  {ItemImage(next_id["image"], item_id, image_url)}
            /\ next_id' = [next_id EXCEPT !["image"] = @ + 1]
            /\ last' = Plain("add_item_image", item_id, None, "image",
                             next_id["image"])
       ELSE \* the foreign key item_images.item_id rejects the INSERT
            /\ UNCHANGED <<item_images, next_id>>
            /\ last' = Plain("add_item_image", item_id, None,
                             "IntegrityError", None)
    /\ UNCHANGED <<urls, now, db, items, threads, messages, message_attachments,
                   message_reactions, blobs, pc, req>>

\* POST /threads: Thread.item_id is unique and references items.
create_thread(p, item_id) ==
    /\ pc[p] = "idle"
    /\ next_id["thread"] \in ThreadIds
    /\ IF ForeignKeyHolds(get_item(items, item_id))
             /\ get_thread_by_item(threads, item_id) = {}
       THEN /\ threads' = threads \cup {Thread(next_id["thread"], item_id)}
            /\ next_id' = [next_id EXCEPT !["thread"] = @ + 1]
            /\ last' = Plain("create_thread", item_id, None, "thread",
                             next_id["thread"])
       ELSE /\ UNCHANGED <<threads, next_id>>
            /\ last' = Plain("create_thread", item_id, None, "HTTP 500", None)
    /\ UNCHANGED <<urls, now, db, items, item_images, messages, message_attachments,
                   message_reactions, blobs, pc, req>>

\* ------------------------------------------------------------ messages
\* POST /messages: messages.thread_id references threads; parent_message_id
\* references nothing.
post_message(p, thread_id, parent_message_id) ==
    /\ pc[p] = "idle"
    /\ next_id["message"] \in MessageIds
    /\ IF ForeignKeyHolds({t \in threads : t.thread_id = thread_id})
       THEN /\ messages' = messages \cup
                  {Message(next_id["message"], thread_id, parent_message_id)}
            /\ next_id' = [next_id EXCEPT !["message"] = @ + 1]
            /\ last' = Plain("post_message", thread_id, None, "message",
                             next_id["message"])
       ELSE /\ UNCHANGED <<messages, next_id>>
            /\ last' = Plain("post_message", thread_id, None,
                             "IntegrityError", None)
    /\ UNCHANGED <<urls, now, db, items, item_images, threads, message_attachments,
                   message_reactions, blobs, pc, req>>

\* POST /message_attachments: the file is uploaded, then the row is inserted.
\* ok: upload_blob returned. The handler answers 500 when the upload or the
\* INSERT raises; an uploaded blob stays.
upload_attachment(p, message_id, ok) ==
    /\ pc[p] = "idle"
    /\ next_id["blob"] <= MaxBlobs
    /\ next_id["attachment"] \in AttachmentIds
    /\ LET url == BlobUrl(next_id["blob"])
       IN IF ~ok
          THEN /\ UNCHANGED <<blobs, message_attachments, next_id>>
               /\ last' = Plain("upload_attachment", message_id, None,
                                "HTTP 500", None)
          ELSE /\ blobs' = blobs \cup {url}
               /\ IF ForeignKeyHolds(get_message(messages, message_id))
                  THEN /\ message_attachments' = message_attachments \cup
                             {MessageAttachment(next_id["attachment"],
                                                message_id, url)}
                       /\ next_id' = [next_id EXCEPT !["blob"] = @ + 1,
                                         !["attachment"] = @ + 1]
                       /\ last' = Plain("upload_attachment", message_id, None,
                                        "attachment", next_id["attachment"])
                  ELSE /\ UNCHANGED message_attachments
                       /\ next_id' = [next_id EXCEPT !["blob"] = @ + 1]
                       /\ last' = Plain("upload_attachment", message_id, None,
                                        "HTTP 500", None)
    /\ UNCHANGED <<urls, now, db, items, item_images, threads, messages,
                   message_reactions, pc, req>>

\* ------------------------------------------------------------ blob deletion
\* services.blob.delete_blob_by_url: ok when delete_blob() returned, and then
\* the blob is gone; otherwise the call raised and the store is as it was.
delete_blob_by_url(store, url, ok) == IF ok THEN store \ {url} ELSE store

\* Mutant: an exception of delete_blob_by_url leaves the function.
BlobDeleteUncaught(ok) == ok

\* try/except around delete_blob_by_url: the loop goes on whether the call
\* returned or raised.
BlobDeleteSurvived(ok) == TRUE

\* The row the loop takes next: rows come in primary-key order.
NextPending(pending) ==
    CHOOSE r \in pending : \A q \in pending : r.id <= q.id

\* One turn of `for att in attachments` / `for image in images`.
BlobStep(p, after) ==
    /\ req[p].pending # {}
    /\ LET row == NextPending(req[p].pending)
           rest == req[p].pending \ {row}
       IN \E ok \in BOOLEAN :
             /\ ok => row.url \in blobs
             /\ blobs' = delete_blob_by_url(blobs, row.url, ok)
             /\ IF BlobDeleteSurvived(ok)
                THEN /\ req' = [req EXCEPT
                           ![p].pending = rest,
                           ![p].attempts = @ (+) SetToBag({row.url}),
                           ![p].warnings =
                               IF ok THEN @ ELSE @ (+) SetToBag({row.url})]
                     /\ pc' = [pc EXCEPT ![p] =
                                  IF rest = {} THEN after ELSE pc[p]]
                     /\ last' = NoCall
                ELSE Finish(p, Reply(req[p].op, req[p].key, None, "Exception",
                                     None,
                                     req[p].attempts (+) SetToBag({row.url}),
                                     req[p].warnings))
    /\ UNCHANGED <<urls, now, db, relations, next_id>>

\* Mutant: the loop over the rows is skipped.
EnumeratedNone(found) == {}

\* The rows the loop visits: all the rows the query returned.
Enumerated(found) == found

\* ------------------------------------------------------------ delete_message
\* Mutant: the function goes on without a message row.
MessageFoundAlways(table, message_id) == TRUE

\* `if message:` of the row db.query(Message)...first() returned.
MessageFound(table, message_id) == get_message(table, message_id) # {}

\* Mutant: a session that commits each statement as it is sent.
SentDeleteAutocommit(table, deleted) == table \ deleted

\* sessionmaker(autocommit=False): a DELETE sent by a session removes no
\* committed row until the session commits.
SentDelete(table, deleted) == table

\* Line 50: the attachments of the message are read. This first query opens
\* the transaction; the later SELECT of the message row reads the same
\* snapshot.
delete_message_enumerate(p, message_id) ==
    /\ pc[p] = "idle"
    /\ LET pending == {[id |-> a.attachment_id, url |-> a.attachment_url] :
                a \in Enumerated(get_attachments_by_message_id(
                                     message_attachments, message_id))}
       IN /\ req' = [req EXCEPT ![p] =
                [ContentReq("delete_message", message_id) EXCEPT
                    !.pending = pending,
                    !.found = MessageFound(messages, message_id)]]
          /\ pc' = [pc EXCEPT ![p] =
                       IF pending = {} THEN "dm_rows" ELSE "dm_blobs"]
    /\ last' = NoCall
    /\ UNCHANGED <<urls, now, db, content>>

\* Lines 51-55.
delete_message_blob(p) ==
    /\ pc[p] = "dm_blobs"
    /\ BlobStep(p, "dm_rows")

\* Lines 58-62: the DELETE of the attachment rows is sent (it acts on the
\* rows committed by then), the message is looked up; without a message the
\* function returns None and the session ends without a commit.
delete_message_rows(p) ==
    /\ pc[p] = "dm_rows"
    /\ LET deleted == get_attachments_by_message_id(message_attachments,
                                                    req[p].key)
       IN IF req[p].found
          THEN /\ message_attachments' =
                      SentDelete(message_attachments, deleted)
               /\ req' = [req EXCEPT ![p].deleted = deleted]
               /\ pc' = [pc EXCEPT ![p] = "dm_commit"]
               /\ last' = NoCall
          ELSE /\ UNCHANGED message_attachments
               /\ Finish(p, Reply("delete_message", req[p].key, None, "None",
                                  None, req[p].attempts, req[p].warnings))
    /\ UNCHANGED <<urls, now, db, items, item_images, threads, messages,
                   message_reactions, blobs, next_id>>

\* Mutant: the replies to the message are deleted with it.
RemainingMessagesCascade(table, message_id) ==
    {m \in table : m.message_id # message_id
                      /\ m.parent_message_id # message_id}

\* db.delete(message): the DELETE of the one row; parent_message_id is a
\* plain column, no foreign key, so no other row is touched.
RemainingMessages(table, message_id) ==
    table \ get_message(table, message_id)

\* Lines 63-66: db.delete(message) and db.commit(). The DELETE of the message
\* row is rejected while an attachment row references it
\* (message_attachments.message_id has no ON DELETE); the reactions of the
\* message go with it (ondelete="CASCADE"). When another request has removed
\* the message row since this one looked it up, the DELETE matches no row:
\* the session only warns about the row count, the commit goes through and
\* the function returns the message it had loaded.
delete_message_commit(p) ==
    /\ pc[p] = "dm_commit"
    /\ LET message_id == req[p].key
           referencing ==
               get_attachments_by_message_id(message_attachments, message_id)
                   \ req[p].deleted
       IN IF referencing # {}
          THEN /\ UNCHANGED <<messages, message_attachments,
                              message_reactions>>
               /\ Finish(p, Reply("delete_message", message_id, None,
                                  "IntegrityError", None, req[p].attempts,
                                  req[p].warnings))
          ELSE /\ message_attachments' = message_attachments \ req[p].deleted
               /\ messages' = RemainingMessages(messages, message_id)
               /\ message_reactions' = message_reactions \
                      get_reactions_by_message(message_reactions, message_id)
               /\ Finish(p, Reply("delete_message", message_id, None,
                                  "message", message_id, req[p].attempts,
                                  req[p].warnings))
    /\ UNCHANGED <<urls, now, db, items, item_images, threads, blobs, next_id>>

\* ------------------------------------------------------------ delete_item
\* Line 252.
delete_item_enumerate(p, item_id) ==
    /\ pc[p] = "idle"
    /\ LET pending == {[id |-> g.image_id, url |-> g.image_url] :
                g \in Enumerated(get_item_images(item_images, item_id))}
       IN /\ req' = [req EXCEPT ![p] =
                [ContentReq("delete_item", item_id) EXCEPT
                    !.pending = pending]]
          /\ pc' = [pc EXCEPT ![p] =
                       IF pending = {} THEN "di_commit" ELSE "di_blobs"]
    /\ last' = NoCall
    /\ UNCHANGED <<urls, now, db, content>>

\* Lines 253-257.
delete_item_blob(p) ==
    /\ pc[p] = "di_blobs"
    /\ BlobStep(p, "di_commit")

\* Lines 260-262: the DELETE of the item row and db.commit(). The image and
\* thread rows of the item go with it (ondelete="CASCADE"); the DELETE is
\* rejected while a message references a thread of the item
\* (messages.thread_id has no ON DELETE), and the exception is re-raised
\* after db.rollback().
delete_item_commit(p) ==
    /\ pc[p] = "di_commit"
    /\ LET item_id == req[p].key
           result == Cardinality(get_item(items, item_id))
       IN IF ThreadMessages(messages, threads, item_id) # {}
          THEN /\ UNCHANGED <<items, item_images, threads>>
               /\ Finish(p, Reply("delete_item", item_id, None,
                                  "IntegrityError", None, req[p].attempts,
                                  req[p].warnings))
          ELSE /\ items' = items \ get_item(items, item_id)
               /\ item_images' = item_images \
                      get_item_images(item_images, item_id)
               /\ threads' = threads \ get_thread_by_item(threads, item_id)
               /\ Finish(p, Reply("delete_item", item_id, None,
                                  IF result > 0 THEN "True" ELSE "False",
                                  None, req[p].attempts, req[p].warnings))
    /\ UNCHANGED <<urls, now, db, messages, message_attachments, message_reactions,
                   blobs, next_id>>

\* ------------------------------------------------------------ reactions
\* .first() of the rows of the pair.
FirstReaction(found) ==
    CHOOSE r \in found : \A q \in found : r.reaction_id <= q.reaction_id

\* Lines 72-80: the lookup; a reaction of the same type is returned as it is.
create_reaction_query(p, message_id, user_id, reaction_type) ==
    /\ pc[p] = "idle"
    /\ LET found == ReactionsOfPair(message_reactions, message_id, user_id)
       IN IF found # {} /\ FirstReaction(found).reaction_type = reaction_type
          THEN Finish(p, [Plain("create_reaction", message_id, user_id,
                                "unchanged", FirstReaction(found).reaction_id)
                             EXCEPT !.arg = reaction_type])
          ELSE /\ found = {} => next_id["reaction"] \in ReactionIds
               /\ req' = [req EXCEPT ![p] =
                     [ContentReq("create_reaction", message_id) EXCEPT
                         !.user_id = user_id,
                         !.reaction_type = reaction_type,
                         !.found = found # {},
                         !.target = IF found = {} THEN None
                                    ELSE FirstReaction(found).reaction_id]]
               /\ pc' = [pc EXCEPT ![p] = "cr_commit"]
               /\ last' = NoCall
    /\ UNCHANGED <<urls, now, db, content>>

\* Mutant: the reaction found is deleted and a new row is inserted.
UpdatedReactionsReinserted(table, row, reaction_type, reaction_id, t) ==
    (table \ {row}) \cup {MessageReaction(reaction_id, row.message_id,
                                          row.user_id, reaction_type, t)}

\* The table after `existing.reaction_type = reaction.reaction_type`: the
\* same row with another type. reaction_id and t, the next id and the time
\* of the commit, play no part.
UpdatedReactions(table, row, reaction_type, reaction_id, t) ==
    (table \ {row}) \cup {[row EXCEPT !.reaction_type = reaction_type]}

\* Lines 82-85 and 88-92: db.commit() of the UPDATE of the row found, or of
\* the INSERT of a new row.
create_reaction_commit(p) ==
    /\ pc[p] = "cr_commit"
    /\ LET message_id == req[p].key
           user_id == req[p].user_id
       IN IF req[p].found
          THEN /\ UNCHANGED next_id
               /\ IF \E r \in message_reactions :
                        r.reaction_id = req[p].target
                  THEN LET row == CHOOSE r \in message_reactions :
                                      r.reaction_id = req[p].target
                       IN /\ message_reactions' = UpdatedReactions(
                                 message_reactions, row, req[p].reaction_type,
                                 next_id["reaction"], now)
                          /\ Finish(p, [Plain("create_reaction", message_id,
                                              user_id, "updated",
                                              row.reaction_id)
                                        EXCEPT !.arg = req[p].reaction_type])
                  ELSE \* the row is gone: the UPDATE matches no row
                       /\ UNCHANGED message_reactions
                       /\ Finish(p, Plain("create_reaction", message_id,
                                          user_id, "StaleDataError", None))
          ELSE IF ForeignKeyHolds(get_message(messages, message_id))
               THEN /\ message_reactions' = message_reactions \cup
                          {MessageReaction(next_id["reaction"], message_id,
                                           user_id, req[p].reaction_type, now)}
                    /\ next_id' = [next_id EXCEPT !["reaction"] = @ + 1]
                    /\ Finish(p, [Plain("create_reaction", message_id,
                                        user_id, "inserted",
                                        next_id["reaction"])
                                  EXCEPT !.arg = req[p].reaction_type])
               ELSE /\ UNCHANGED <<message_reactions, next_id>>
                    /\ Finish(p, Plain("create_reaction", message_id, user_id,
                                       "IntegrityError", None))
    /\ UNCHANGED <<urls, now, db, items, item_images, threads, messages,
                   message_attachments, blobs>>

\* crud.delete_reaction: the rows of the pair are deleted.
delete_reaction(p, message_id, user_id) ==
    /\ pc[p] = "idle"
    /\ message_reactions' = message_reactions \
           ReactionsOfPair(message_reactions, message_id, user_id)
    /\ last' = Plain("delete_reaction", message_id, user_id, "removed", None)
    /\ UNCHANGED <<urls, now, db, items, item_images, threads, messages,
                   message_attachments, blobs, next_id, pc, req>>

\* ------------------------------------------------------------ content failures
\* A statement or the COMMIT of an open transaction fails (connection lost,
\* server error): the transaction is rolled back, the exception leaves the
\* handler. What was done in the blob store stays done.
content_failure(p) ==
    /\ pc[p] \in {"create_item", "dm_commit", "di_commit", "cr_commit"}
    /\ Finish(p, Reply(req[p].op, req[p].key, req[p].user_id,
                       "OperationalError", None, req[p].attempts,
                       req[p].warnings))
    /\ UNCHANGED <<urls, now, db, content>>


\* ------------------------------------------------------------ blob urls
\* Strings are sequences of characters. The characters uploads put in a blob
\* name: hex digits and '-' (uuid4, os.urandom(16).hex()), '.', '/' and the
\* letters of "items/", ".jpg" and of a file extension.
HexDigits == {"0", "3", "a", "e"}
UuidChars == HexDigits \cup {"-"}

\* The strings of 1..n characters over chars.
RECURSIVE Strings(_, _)
Strings(chars, n) ==
    IF n = 0 THEN {}
    ELSE {<<c>> : c \in chars} \cup
         {Append(s, c) : s \in Strings(chars, n - 1), c \in chars}

\* services/blob.py line 6, main.py line 330.
CONTAINER_NAME ==
    <<"m", "e", "s", "s", "a", "g", "e", "-",
      "a", "t", "t", "a", "c", "h", "m", "e", "n", "t", "s">>

\* os.getenv("AZURE_CONTAINER_NAME"): the container of the item images, the
\* one of the attachments or one of its own.
ItemContainers == {CONTAINER_NAME, <<"i", "t", "e", "m", "s">>}

\* main.py lines 338-339: f"{uuid.uuid4()}.{file_extension}", or the uuid
\* alone for a file name without an extension. A uuid starts with a hex
\* digit.
AttachmentExtensions == {<< >>, <<".", "p", "n", "g">>}
AttachmentNames ==
    {u \o e : u \in {s \in Strings(UuidChars, MaxNameLen) :
                        Head(s) \in HexDigits},
              e \in AttachmentExtensions}

\* utils.py line 127: f"items/{os.urandom(16).hex()}.jpg".
ItemImageNames ==
    {<<"i", "t", "e", "m", "s", "/">> \o h \o <<".", "j", "p", "g">> :
        h \in Strings(HexDigits, MaxNameLen)}

\* blob_client.url: scheme, "//", account host, then "/container/blob". The
\* characters of these blob names are not percent-quoted.
blob_client_url(container, blob) ==
    <<"https:", "/", "/", "account.blob.core.windows.net">>
        \o <<"/">> \o container \o <<"/">> \o blob

\* urlparse(blob_url).path: what follows the host, from its first "/" on.
RECURSIVE FromFirstSlash(_)
FromFirstSlash(s) ==
    IF s = << >> \/ Head(s) = "/" THEN s ELSE FromFirstSlash(Tail(s))

urlparse_path(blob_url) == FromFirstSlash(SubSeq(blob_url, 4, Len(blob_url)))

\* str.lstrip(chars): the leading characters that are in chars are dropped,
\* up to the first character that is not.
RECURSIVE lstrip(_, _)
lstrip(s, chars) ==
    IF s # << >> /\ Head(s) \in chars THEN lstrip(Tail(s), chars) ELSE s

\* The characters of f"/{CONTAINER_NAME}/".
StripChars == {"/"} \cup {CONTAINER_NAME[i] : i \in 1..Len(CONTAINER_NAME)}

\* services/blob.py lines 10-12: the blob client delete_blob_by_url deletes
\* with.
get_blob_client(blob_url) ==
    [container |-> CONTAINER_NAME,
     blob |-> lstrip(urlparse_path(blob_url), StripChars)]

\* The uploads: an attachment (main.py 329-345) or an item image (utils.py
\* 123-141), with the url stored in the row.
Upload(kind, container, blob) ==
    [kind |-> kind, container |-> container, blob |-> blob,
     url |-> blob_client_url(container, blob)]

Uploads ==
    {Upload("attachment", CONTAINER_NAME, b) : b \in AttachmentNames}
        \cup {Upload("item_image", c, b) :
                 c \in ItemContainers, b \in ItemImageNames}

\* Some upload was made and its url stored.
InitUrls ==
    /\ now = 0
    /\ family_groups = {}
    /\ user_family_groups = EmptyBag
    /\ group_invites = {}
    /\ next_invite_id = 1
    /\ items = {}
    /\ item_images = {}
    /\ threads = {}
    /\ messages = {}
    /\ message_attachments = {}
    /\ message_reactions = {}
    /\ blobs = {}
    /\ uploaded \in Uploads
    /\ derived = NoBlob
    /\ next_id = [t \in Tables |-> 1]
    /\ pc = [p \in Procs |-> "idle"]
    /\ req = [p \in Procs |-> NullReq]
    /\ last = NoCall

\* delete_blob_by_url(url) names the blob it is going to delete.
derive_blob_client ==
    /\ derived = NoBlob
    /\ derived' = get_blob_client(uploaded.url)
    /\ UNCHANGED <<uploaded, now, db, content, pc, req, last>>

\* ------------------------------------------------------------ behaviours
\* The steps of an accept_group_invite request.
Accept(p) ==
    \/ \E t \in Tokens, u \in Users : accept_query(p, t, u)
    \/ accept_flush(p)
    \/ accept_commit(p)

\* The steps of the other requests.
Other(p, expiries) ==
    \/ \E u \in Creators : create_group_commit_group(p, u)
    \/ create_group_commit_membership(p)
    \/ \E g \in GroupIds, u \in Inviters, e \in expiries :
           create_group_invite(p, g, u, e)
    \/ \E i \in InviteIds : revoke_group_invite(p, i)

\* One request at a time, while the clock runs.
Next ==
    \/ Tick
    \/ Accept("r1")
    \/ Other("r1", ExpiryInputs)
    \/ session_failure("r1")

Spec == Init /\ [][Next]_vars

\* Within one reading of the clock, an accept_group_invite request overlaps
\* with any other request, a second accept_group_invite among them.
NextOverlap ==
    \/ Accept("r1")
    \/ Other("r1", {None})
    \/ Accept("r2")
    \/ \E p \in Procs : session_failure(p)

SpecOverlap == Init /\ [][NextOverlap]_vars

\* Invites are issued, redeemed and previewed, one request at a time, while
\* the clock runs.
NextPreview ==
    \/ Tick
    \/ Accept("r1")
    \/ Other("r1", ExpiryInputs)
    \/ \E t \in Tokens, u \in Users : preview_invite("r1", t, u)

SpecPreview == Init /\ [][NextPreview]_vars

\* The steps of a create-item request.
CreateItem(p, uploads) ==
    \/ \E ok \in uploads : create_new_item_upload(p, ok)
    \/ create_item(p)

\* The other requests that add to an item.
AddToItem(p) ==
    \/ \E i \in ItemIds, n \in 1..MaxBlobs : add_item_image(p, i, BlobUrl(n))
    \/ \E i \in ItemIds : create_thread(p, i)

\* The requests that post a message and attach a file to one.
Post(p, parents, uploads) ==
    \/ \E t \in ThreadIds, m \in parents : post_message(p, t, m)
    \/ \E m \in MessageIds, ok \in uploads : upload_attachment(p, m, ok)

\* The steps of a delete-message request.
DeleteMessage(p) ==
    \/ \E m \in MessageIds : delete_message_enumerate(p, m)
    \/ delete_message_blob(p)
    \/ delete_message_rows(p)
    \/ delete_message_commit(p)

\* The steps of a delete-item request.
DeleteItem(p) ==
    \/ \E i \in ItemIds : delete_item_enumerate(p, i)
    \/ delete_item_blob(p)
    \/ delete_item_commit(p)

\* The steps of the reaction requests.
React(p, users) ==
    \/ \E m \in MessageIds, u \in users, t \in ReactionTypes :
           create_reaction_query(p, m, u, t)
    \/ create_reaction_commit(p)
    \/ \E m \in MessageIds, u \in users : delete_reaction(p, m, u)

\* Items, messages and attachments are created and deleted, one request at a
\* time.
NextContent ==
    \/ CreateItem("r1", BOOLEAN)
    \/ AddToItem("r1")
    \/ Post("r1", {None}, BOOLEAN)
    \/ DeleteMessage("r1")
    \/ DeleteItem("r1")
    \/ content_failure("r1")

SpecContent == Init /\ [][NextContent]_vars

\* Messages, their attachments and their reactions, one request at a time,
\* while the clock runs.
NextReactions ==
    \/ Tick
    \/ CreateItem("r1", {TRUE})
    \/ Post("r1", {None}, {TRUE})
    \/ DeleteMessage("r1")
    \/ React("r1", {1})
    \/ content_failure("r1")

SpecReactions == Init /\ [][NextReactions]_vars

\* The requests that create and add overlap with the requests that delete.
NextContentOverlap ==
    \/ CreateItem("r1", {TRUE})
    \/ AddToItem("r1")
    \/ Post("r1", {None}, {TRUE})
    \/ DeleteMessage("r2")
    \/ DeleteItem("r2")
    \/ \E p \in Procs : content_failure(p)

SpecContentOverlap == Init /\ [][NextContentOverlap]_vars

\* Two reaction requests of one user overlap, on the messages of an item's
\* thread.
NextReactionsOverlap ==
    \/ CreateItem("r1", {TRUE})
    \/ \E t \in ThreadIds : post_message("r1", t, None)
    \/ \E p \in Procs : React(p, {1})
    \/ \E p \in Procs : content_failure(p)

SpecReactionsOverlap == Init /\ [][NextReactionsOverlap]_vars

\* Messages and replies to them are posted and deleted, one request at a
\* time.
NextReplies ==
    \/ CreateItem("r1", {TRUE})
    \/ Post("r1", {None} \cup MessageIds, {TRUE})
    \/ DeleteMessage("r1")
    \/ content_failure("r1")

SpecReplies == Init /\ [][NextReplies]_vars

\* Two delete-message requests overlap, on the messages of an item's thread
\* and their attachments.
NextDeleteOverlap ==
    \/ CreateItem("r1", {TRUE})
    \/ Post("r1", {None}, {TRUE})
    \/ \E p \in Procs : DeleteMessage(p)
    \/ \E p \in Procs : content_failure(p)

SpecDeleteOverlap == Init /\ [][NextDeleteOverlap]_vars

\* The url of an upload is handed to delete_blob_by_url.
NextUrls == derive_blob_client

SpecUrls == InitUrls /\ [][NextUrls]_vars

\* ------------------------------------------------------------ properties
AcceptReturned(call) == call.op = "accept_group_invite"

HasInvite(invites, invite_id) == \E i \in invites : i.invite_id = invite_id

Expired(invite, t) == invite.expires_at # None /\ invite.expires_at < t

AnyMembership(table, user_id) ==
    \E m \in BagToSet(table) : m.user_id = user_id

\* C1: of two overlapping accept-invite requests for one unused, unexpired
\* token only one redeems it: a request commits a redemption (its membership
\* row and used=true) and returns the invite only if the token is still unused
\* at that commit; the other request is refused.
C1_SingleRedemption ==
    [][\A p \in Procs :
          (pc[p] = "commit" /\ AcceptReturned(last') /\ last'.status = "invite"
              /\ last'.id = req[p].invite_id /\ pc'[p] = "idle")
          => ~InviteById(group_invites, req[p].invite_id).used]_vars

\* C2: once an invite has used=true, its row never changes again (it can only
\* be deleted by a revoke), and every accept-invite made with its token
\* returns the refusal and leaves the membership table as it was.
C2_UsedStaysUsed ==
    [][\A i \in group_invites : i.used =>
          /\ \A j \in group_invites' : j.invite_id = i.invite_id => j = i
          /\ (AcceptReturned(last') /\ last'.key = i.token)
                => /\ last'.status = "None"
                   /\ user_family_groups' = user_family_groups]_vars

\* C2 witness: an accept-invite has just been refused on a used invite.
C2_Witness ==
    /\ AcceptReturned(last)
    /\ last.status = "None"
    /\ \E i \in group_invites : i.token = last.key /\ i.used

Viewer(user_id, group_id) == UserFamilyGroup(user_id, group_id, "viewer")

\* C4: membership creation and invite consumption become visible together or
\* not at all: a step that makes a viewer row visible also makes the invite
\* used by that user, a step that makes an invite used leaves its user a
\* member of the group, and an accept-invite that ends in a failure (after its
\* INSERT was sent, too) changes no committed row.
C4_Atomic ==
    [][/\ \A u \in Users, g \in GroupIds :
             CopiesIn(Viewer(u, g), user_family_groups')
                 > CopiesIn(Viewer(u, g), user_family_groups)
             => \E j \in group_invites' \ group_invites :
                    j.group_id = g /\ j.used /\ j.invited_user_id = u
       /\ \A j \in group_invites' \ group_invites : j.used =>
             MembershipRows(user_family_groups', j.invited_user_id,
                            j.group_id) # {}
       /\ (AcceptReturned(last') /\ last'.status # "invite")
             => /\ user_family_groups' = user_family_groups
                /\ group_invites' = group_invites]_vars

\* C4 witness: an accept-invite failed after the INSERT of its membership row
\* was sent; the user is no member and the invite is unused.
C4_Witness ==
    /\ AcceptReturned(last)
    /\ last.status = "OperationalError"
    /\ \E i \in group_invites :
          /\ i.token = last.key
          /\ ~i.used
          /\ MembershipRows(user_family_groups, last.user_id, i.group_id) = {}

\* C5: an accept-invite that succeeds for a user without any membership leaves
\* exactly one row (user, invite's group), with role viewer, the invite used
\* with used_at the clock reading of the request and invited_user the user;
\* the user's group list is then exactly that group.
C5_AcceptJoins ==
    [][(pc["r1"] = "commit" /\ AcceptReturned(last')
            /\ last'.status = "invite"
            /\ ~AnyMembership(user_family_groups, last'.user_id))
       => LET u == last'.user_id
              j == InviteById(group_invites', last'.id)
              g == j.group_id
          IN /\ MembershipCount(user_family_groups', u, g) = 1
             /\ MembershipRows(user_family_groups', u, g) = {Viewer(u, g)}
             /\ j.used
             /\ j.used_at = req["r1"].used_at
             /\ j.used_at \in Times /\ j.used_at <= now
             /\ j.invited_user_id = u
             /\ get_user_groups(user_family_groups', family_groups', u)
                    = SetToBag({g})]_vars

\* C5 witness: a user has just joined by an invite and is listed in exactly
\* the invite's group.
C5_Witness ==
    /\ AcceptReturned(last)
    /\ last.status = "invite"
    /\ LET j == InviteById(group_invites, last.id)
       IN /\ j.invited_user_id = last.user_id
          /\ Viewer(last.user_id, j.group_id) \in BagToSet(user_family_groups)
          /\ get_user_groups(user_family_groups, family_groups, last.user_id)
                 = SetToBag({j.group_id})

FailureKind(invites, token, t) ==
    LET invite == get_group_invite_by_token(invites, token)
    IN IF invite.invite_id = None THEN "NotFound"
       ELSE IF invite.used THEN "Conflict"
       ELSE IF Expired(invite, t) THEN "Expired"
       ELSE "none"

IssueReturned(call) == call.op = "create_group_invite"

\* An unused, non-expired invite of this group and inviter.
Live(i, group_id, inviter_user_id, t) ==
    /\ i.group_id = group_id
    /\ i.inviter_user_id = inviter_user_id
    /\ ~i.used
    /\ ~Expired(i, t)

\* C8, as stated: issue-invite returns the live invite of (group, inviter)
\* when there is one and adds no row; it adds a row only when there is none.
C8_Idempotent ==
    [][IssueReturned(last')
       => IF \E i \in group_invites : Live(i, last'.key, last'.user_id, now)
          THEN /\ group_invites' = group_invites
               /\ \E i \in group_invites :
                     /\ Live(i, last'.key, last'.user_id, now)
                     /\ i.invite_id = last'.id
          ELSE Cardinality(group_invites') = Cardinality(group_invites) + 1]_vars

\* C8, amended: every issue-invite adds exactly one new row, with an id and a
\* token no present row has, for the group and inviter given, and returns
\* that row, whether or not a live invite of (group, inviter) exists.
C8_AlwaysNew ==
    [][IssueReturned(last')
       => \E j \in group_invites' :
             /\ j.invite_id = last'.id
             /\ j.group_id = last'.key
             /\ j.inviter_user_id = last'.user_id
             /\ j \notin group_invites
             /\ group_invites' = group_invites \cup {j}
             /\ \A i \in group_invites :
                   i.invite_id # j.invite_id /\ i.token # j.token]_vars

\* C8 witness: an issue-invite has just returned a second live invite of the
\* same group and inviter.
C8_Witness ==
    /\ IssueReturned(last)
    /\ \E i, j \in group_invites :
          /\ j.invite_id = last.id
          /\ i.invite_id # j.invite_id
          /\ Live(i, j.group_id, j.inviter_user_id, now)
          /\ Live(j, j.group_id, j.inviter_user_id, now)

\* C9, as stated: a row issue-invite persists is unused and expires seven
\* days after the time of issue; none is without an expiry.
C9_SevenDayExpiry ==
    [][IssueReturned(last')
       => \A j \in group_invites' \ group_invites :
             /\ ~j.used
             /\ j.expires_at # None
             /\ j.expires_at = now + 7]_vars

\* C9, amended: a row issue-invite persists is unused (used_at and
\* invited_user unset) and carries the expiry the caller passed, which is
\* absent when the caller passed none.
C9_CallerExpiry ==
    [][IssueReturned(last')
       => /\ group_invites' # group_invites
          /\ \A j \in group_invites' \ group_invites :
                /\ ~j.used
                /\ j.used_at = None
                /\ j.invited_user_id = None
                /\ j.expires_at = last'.expires_at]_vars

\* C9 witness: an invite has just been issued without an expiry.
C9_Witness ==
    /\ IssueReturned(last)
    /\ last.expires_at = None
    /\ \E j \in group_invites :
          j.invite_id = last.id /\ j.expires_at = None /\ ~j.used

\* C10: there is at most one membership row per (user, group).
C10_UniqueMembership ==
    \A u \in Users, g \in GroupIds :
        MembershipCount(user_family_groups, u, g) <= 1

\* C10 witness: the INSERT of a second row for a (user, group) that an
\* overlapping request had just inserted was rejected.
C10_Witness ==
    /\ AcceptReturned(last)
    /\ last.status = "IntegrityError"
    /\ \E i \in group_invites :
          /\ i.token = last.key
          /\ MembershipCount(user_family_groups, last.user_id, i.group_id) = 1

\* ------------------------------------------------------------ content properties
DeleteMessageReturned(call) == call.op = "delete_message"

\* C11: a delete-message request for a message that exists, with any number
\* of attachments and whatever blob deletes return or raise, ends in one way
\* only unless its database transaction fails: it returns the message and no
\* attachment row of the message and no row of the message are left. A blob
\* delete that raises ends nothing.
C11_BlobFailureTolerated ==
    [][LET r == req["r1"]
       IN (r.op = "delete_message" /\ get_message(messages, r.key) # {}
              /\ pc'["r1"] = "idle")
          => \/ pc["r1"] = "dm_commit" /\ last'.status = "OperationalError"
             \/ /\ DeleteMessageReturned(last')
                /\ last'.status = "message"
                /\ last'.id = r.key
                /\ get_attachments_by_message_id(message_attachments',
                                                 r.key) = {}
                /\ get_message(messages', r.key) = {}]_vars

\* C11 witness: a message with two attachments has just been deleted, one blob
\* delete having raised and the other having returned.
C11_Witness ==
    /\ DeleteMessageReturned(last)
    /\ last.status = "message"
    /\ BagCardinality(last.attempts) = 2
    /\ BagCardinality(last.warnings) = 1
    /\ get_attachments_by_message_id(message_attachments, last.key) = {}
    /\ get_message(messages, last.key) = {}

\* C12: a delete-message request for an id no message row has changes no row
\* of any table (messages, attachments, reactions among them) and no blob at
\* any of its steps, never reaches its commit, and returns None, which the
\* handler turns into 404.
C12_DeleteMissingMessage ==
    [][\A r \in {req["r1"], req'["r1"]} :
          (r.op = "delete_message" /\ get_message(messages, r.key) = {})
          => /\ relations' = relations
             /\ blobs' = blobs
             /\ pc["r1"] # "dm_commit"
             /\ pc'["r1"] = "idle"
                   => (DeleteMessageReturned(last') /\ last'.status = "None")]_vars

\* C12 witness: a delete-message for a missing id has just returned None while
\* the three tables hold rows.
C12_Witness ==
    /\ DeleteMessageReturned(last)
    /\ last.status = "None"
    /\ get_message(messages, last.key) = {}
    /\ messages # {}
    /\ message_attachments # {}
    /\ message_reactions # {}

DeleteItemReturned(call) == call.op = "delete_item"

\* The urls of a set of image rows, one copy per row.
ImageUrlBag(images) ==
    LET Gather[S \in SUBSET images] ==
            IF S = {} THEN EmptyBag
            ELSE LET g == CHOOSE x \in S : TRUE
                 IN SetToBag({g.image_url}) (+) Gather[S \ {g}]
    IN Gather[images]

\* C13, as stated: a delete-item request for an item that exists attempts the
\* blob delete once per image row, logs one warning per attempt that raised
\* and none otherwise, and then, whatever the blob deletes did and unless the
\* database transaction itself fails, removes the item row and all its image
\* rows and reports success.
C13_DeleteItemTolerant ==
    [][LET r == req["r1"]
       IN (r.op = "delete_item" /\ get_item(items, r.key) # {})
          => /\ pc["r1"] = "di_blobs" =>
                   \E url \in UploadedUrls :
                      /\ r'.attempts = r.attempts (+) SetToBag({url})
                      /\ r'.warnings = IF blobs' = blobs
                                       THEN r.warnings (+) SetToBag({url})
                                       ELSE r.warnings
             /\ pc'["r1"] = "idle" =>
                   \/ last'.status = "OperationalError"
                   \/ /\ DeleteItemReturned(last')
                      /\ last'.status = "True"
                      /\ last'.attempts =
                            ImageUrlBag(get_item_images(item_images, r.key))
                      /\ get_item(items', r.key) = {}
                      /\ get_item_images(item_images', r.key) = {}]_vars

\* The steps of a delete request between its first query and its return.
DeleteSteps == {"dm_blobs", "dm_rows", "dm_commit", "di_blobs", "di_commit"}

\* The urls the committed rows of the parent of a delete request point to.
ParentUrls(r) ==
    IF r.op = "delete_message"
    THEN {a.attachment_url :
             a \in get_attachments_by_message_id(message_attachments, r.key)}
    ELSE {g.image_url : g \in get_item_images(item_images, r.key)}

\* C14: in delete-message and delete-item the blob deletes come before the
\* rows go: a step that removes an attachment row or an image row belongs to
\* a delete request for its parent whose loop is over and has attempted the
\* blob delete of the row's url; and at every point between the first query
\* and the return of a delete request, every blob among those the request
\* visits that is still in the store is still pointed to by a row of the
\* parent.
C14_BlobsBeforeRows ==
    [][LET r == req["r1"]
       IN /\ \A a \in message_attachments \ message_attachments' :
                /\ r.op = "delete_message" /\ r.key = a.message_id
                /\ r.pending = {}
                /\ BagIn(a.attachment_url, r.attempts)
          /\ \A g \in item_images \ item_images' :
                /\ r.op = "delete_item" /\ r.key = g.item_id
                /\ r.pending = {}
                /\ BagIn(g.image_url, r.attempts)
          /\ pc["r1"] \in DeleteSteps =>
                \A url \in BagToSet(r.attempts)
                              \cup {row.url : row \in r.pending} :
                    url \in blobs => url \in ParentUrls(r)]_vars

\* C14 witness: a delete-message request stands before its commit with both
\* blob deletes attempted, one blob gone and one, whose delete raised, still
\* in the store, and both attachment rows still there.
C14_Witness ==
    /\ pc["r1"] = "dm_commit"
    /\ BagCardinality(req["r1"].attempts) = 2
    /\ BagToSet(req["r1"].attempts) = ParentUrls(req["r1"])
    /\ \E url \in ParentUrls(req["r1"]) :
          url \in blobs /\ BagIn(url, req["r1"].warnings)
    /\ \E url \in ParentUrls(req["r1"]) : url \notin blobs

\* C15: the row deletes of delete-message are one transaction: a step that
\* takes the message row away leaves none of its attachment rows, a step that
\* takes attachment rows of a message away takes the message row with them,
\* and when the transaction of a delete-message request fails every row
\* stays as it was while the blobs whose delete had returned stay deleted.
C15_RowsInOneTransaction ==
    [][LET r == req["r1"]
       IN /\ \A m \in MessageIds :
                LET was == get_attachments_by_message_id(message_attachments, m)
                    now_ == get_attachments_by_message_id(message_attachments', m)
                IN /\ (get_message(messages, m) # {}
                          /\ get_message(messages', m) = {}) => now_ = {}
                   /\ was \ now_ # {} => get_message(messages', m) = {}
          /\ (r.op = "delete_message" /\ pc["r1"] = "dm_commit"
                 /\ last'.status = "OperationalError")
             => /\ relations' = relations
                /\ blobs' = blobs
                /\ \A url \in BagToSet(r.attempts) :
                      ~BagIn(url, r.warnings) => url \notin blobs']_vars

\* C15 witness: a delete-message request whose transaction failed has
\* returned; the message and an attachment row of it are still there and the
\* blob of that row is gone.
C15_Witness ==
    /\ pc["r1"] = "idle"
    /\ last.op = "delete_message" /\ last.status = "OperationalError"
    /\ get_message(messages, last.key) # {}
    /\ \E a \in get_attachments_by_message_id(message_attachments, last.key) :
          a.attachment_url \notin blobs

\* C16: in every state reached by create-item, add-item-image,
\* upload-attachment, delete-message and delete-item requests, overlapping
\* or not, every attachment row points to an existing message and every
\* image row to an existing item; and once a delete-item request for an item
\* has returned, unless the database itself failed, get_item finds no such
\* item and the item has no image rows.
C16_NoOrphansAfterDelete ==
    /\ \A a \in message_attachments : get_message(messages, a.message_id) # {}
    /\ \A g \in item_images : get_item(items, g.item_id) # {}
    /\ (last.op = "delete_item" /\ last.status # "OperationalError")
       => /\ get_item(items, last.key) = {}
          /\ get_item_images(item_images, last.key) = {}

\* C17: when create_reaction returns for a (message, user) pair that has a
\* reaction row, then, unless the database itself failed, the pair has
\* exactly one row, the row it had, with the same reaction_id and the same
\* created_at and with the type asked for; if that is the type the row had,
\* the table is as it was; the rows of other pairs are as they were.
C17_SetReactionInPlace ==
    [][(/\ last'.op = "create_reaction" /\ pc'["r1"] = "idle"
        /\ pc["r1"] = "cr_commit" \/ last'.status = "unchanged"
        /\ ReactionsOfPair(message_reactions, last'.key, last'.user_id) # {})
       => LET was == ReactionsOfPair(message_reactions,
                                     last'.key, last'.user_id)
              now_ == ReactionsOfPair(message_reactions',
                                      last'.key, last'.user_id)
          IN \/ /\ last'.status = "OperationalError"
                /\ message_reactions' = message_reactions
             \/ /\ last'.status \in {"unchanged", "updated"}
                /\ \E row \in was :
                      /\ was = {row}
                      /\ now_ = {[row EXCEPT !.reaction_type = last'.arg]}
                      /\ last'.id = row.reaction_id
                      /\ row.reaction_type = last'.arg
                            => message_reactions' = message_reactions
                /\ message_reactions' \ now_ = message_reactions \ was]_vars

\* C17 witness: create_reaction has returned after changing the type of a
\* reaction made at an earlier time; the pair has the one row, with the id
\* returned, the new type and the earlier created_at.
C17_Witness ==
    /\ pc["r1"] = "idle"
    /\ last.op = "create_reaction" /\ last.status = "updated"
    /\ \E row \in message_reactions :
          /\ ReactionsOfPair(message_reactions, last.key, last.user_id) = {row}
          /\ row.reaction_id = last.id
          /\ row.reaction_type = last.arg
          /\ row.created_at < now

\* C18: in every state, also while create_reaction requests of one user for
\* one message overlap, a (message, user) pair has at most one reaction row.
C18_OneReactionPerPair ==
    \A m \in MessageIds, u \in Users :
        Cardinality(ReactionsOfPair(message_reactions, m, u)) <= 1

C20_UploadFailureAborts ==
    [][/\ (pc["r1"] = "idle" /\ blobs' = blobs
              /\ (last'.op = "create_new_item" \/ pc'["r1"] = "create_item"))
          => /\ pc'["r1"] = "idle"
             /\ last'.status = "HTTP 500"
             /\ relations' = relations
       /\ \A i \in items' \ items :
             \A g \in get_item_images(item_images', i.item_id) :
                 g.image_url \in blobs']_vars

\* C20 witness: a create-item request has ended with HTTP 500 at its upload;
\* nothing was stored and there is no item, image or thread row.
C20_Witness ==
    /\ pc["r1"] = "idle"
    /\ last.op = "create_new_item" /\ last.status = "HTTP 500"
    /\ blobs = {}
    /\ items = {} /\ item_images = {} /\ threads = {}

\* ------------------------------------------------------------ url properties
\* C21: for every url an upload stored, the container and the blob name
\* delete_blob_by_url derives from the url are the container and the blob
\* name of the upload.
C21_UrlRoundTrip ==
    derived # NoBlob
    => /\ derived.container = uploaded.container
       /\ derived.blob = uploaded.blob

C23_LifecycleMonotone ==
    [][/\ \A i \in group_invites, j \in group_invites' :
             (i.invite_id = j.invite_id /\ i.used) => j.used
       /\ \A j \in group_invites' :
             \/ HasInvite(group_invites, j.invite_id)
             \/ /\ j.invite_id = next_invite_id /\ j.token = uuid4(next_invite_id)
                /\ next_invite_id' = next_invite_id + 1
                /\ ~j.used
       /\ \A j \in group_invites' : j.invite_id < next_invite_id'
       /\ (AcceptReturned(last')
              /\ \A i \in group_invites : i.token # last'.key)
          => /\ last'.status = "None"
             /\ user_family_groups' = user_family_groups
             /\ group_invites' = group_invites
       /\ (last'.op = "revoke_group_invite"
              /\ ~HasInvite(group_invites, last'.key))
          => /\ last'.status = "False"
             /\ group_invites' = group_invites
             /\ user_family_groups' = user_family_groups
             /\ family_groups' = family_groups]_vars

\* C23 witness: an accept with the token of an invite that was issued and
\* then revoked has returned None; the token has no row and the user no
\* membership.
C23_Witness ==
    /\ AcceptReturned(last) /\ last.status = "None"
    /\ \E n \in 1..MaxInvites : last.key = uuid4(n) /\ n < next_invite_id
    /\ \A i \in group_invites : i.token # last.key
    /\ ~AnyMembership(user_family_groups, last.user_id)

\* C24: in every committed state every group has a poster membership row
\* (the group and its creator's membership are persisted together), and a
\* membership row is committed with role poster by create-group and with
\* role viewer by accept-invite.
C24_GroupWithPoster ==
    [][/\ \A g \in family_groups' :
             \E m \in BagToSet(user_family_groups') :
                 m.group_id = g /\ m.role = "poster"
       /\ \A m \in BagToSet(user_family_groups')
                      \ BagToSet(user_family_groups) :
             /\ req["r1"].op = "create_group" => m.role = "poster"
             /\ req["r1"].op = "accept_group_invite" => m.role = "viewer"]_vars

\* ------------------------------------------------------------ reply properties
\* C25: delete-message(M) leaves every other message row as it is: no step
\* of the request removes or changes a message other than M, and a message
\* whose parent_message_id is M is still there afterwards with
\* parent_message_id M.
C25_RepliesSurvive ==
    [][req["r1"].op = "delete_message"
       => /\ \A m \in messages : m.message_id # req["r1"].key => m \in messages'
          /\ messages' \subseteq messages]_vars

\* C25 witness: delete-message has removed a message, and a reply to it is
\* still there, its parent_message_id naming the message that is gone.
C25_Witness ==
    /\ last.op = "delete_message" /\ last.status = "message"
    /\ get_message(messages, last.key) = {}
    /\ \E m \in messages : m.parent_message_id = last.key

\* ------------------------------------------------------------ item properties
\* C26: delete-item of an existing item succeeds whether or not the item's
\* thread holds messages: unless the database itself failed, the request
\* returns True, the item, its image rows and its thread are gone and every
\* message row left names a thread that exists; in particular it does not
\* end, its blob deletes done, with the row delete rejected.
C26_DeleteItemWithMessages ==
    [][LET r == req["r1"]
       IN (r.op = "delete_item" /\ pc["r1"] = "di_commit"
              /\ get_item(items, r.key) # {})
          => \/ last'.status = "OperationalError"
             \/ /\ last'.status = "True"
                /\ get_item(items', r.key) = {}
                /\ get_item_images(item_images', r.key) = {}
                /\ get_thread_by_item(threads', r.key) = {}
                /\ \A m \in messages' :
                      \E t \in threads' : t.thread_id = m.thread_id]_vars

\* ------------------------------------------------------------ invite rows
\* C27: in every state each invite row is consistent: used is true exactly
\* when used_at is set and exactly when invited_user_id is set; and for every
\* used invite the invited user has a membership row in the invite's group.
C27_InviteConsistent ==
    \A i \in group_invites :
        /\ i.used <=> i.used_at # None
        /\ i.used <=> i.invited_user_id # None
        /\ i.used => MembershipRows(user_family_groups, i.invited_user_id,
                                    i.group_id) # {}

\* C27 witness: a used invite, with its time, its user and the user's
\* membership, next to an unused one with neither.
C27_Witness ==
    /\ \E i \in group_invites :
          /\ i.used /\ i.used_at # None /\ i.invited_user_id # None
          /\ MembershipRows(user_family_groups, i.invited_user_id,
                            i.group_id) # {}
    /\ \E i \in group_invites :
          ~i.used /\ i.used_at = None /\ i.invited_user_id = None

\* C28: when the requesting user already has a membership row in the
\* invite's group, an accept-invite that got past its checks ends, unless the
\* database itself failed, by returning the invite: the membership rows are
\* as they were (no row added, the role of the existing row unchanged), the
\* invite is used with invited_user_id the requesting user, and from then on
\* the token is refused at every time.
C28_MemberRedeems ==
    [][LET r == req["r1"]
       IN (r.op = "accept_group_invite" /\ pc'["r1"] = "idle"
              /\ MembershipRows(user_family_groups, r.user_id, r.group_id)
                     # {})
          => \/ last'.status = "OperationalError"
             \/ /\ last'.status = "invite"
                /\ user_family_groups' = user_family_groups
                /\ LET j == InviteById(group_invites', r.invite_id)
                   IN /\ last'.id = j.invite_id
                      /\ j.used /\ j.invited_user_id = r.user_id
                      /\ \A t \in Times :
                            accept_refusal(group_invites', j.token, t)
                                = "None"]_vars

\* C28 witness: the poster of a group has redeemed an invite of that group:
\* the invite is used by them and their one membership row is the poster row.
C28_Witness ==
    /\ AcceptReturned(last) /\ last.status = "invite"
    /\ LET j == InviteById(group_invites, last.id)
       IN /\ j.used /\ j.invited_user_id = last.user_id
          /\ MembershipRows(user_family_groups, last.user_id, j.group_id)
                 = {UserFamilyGroup(last.user_id, j.group_id, "poster")}
          /\ MembershipCount(user_family_groups, last.user_id, j.group_id) = 1

\* C29: the first step of an accept-invite on an unused invite goes on to the
\* redemption exactly when the invite has no expires_at or its expires_at is
\* not earlier than the time the request reads: an invite without expiry is
\* never refused for its age, an invite whose expires_at is the current time
\* is still valid, and only an expires_at strictly earlier than the current
\* time gets the refusal.
C29_ExpiryEdge ==
    [][\A i \in group_invites :
          (~i.used /\ pc["r1"] = "idle")
          => /\ (AcceptReturned(last') /\ last'.key = i.token)
                   => /\ last'.status = "None"
                      /\ i.expires_at # None /\ i.expires_at < now
             /\ (pc'["r1"] = "flush" /\ req'["r1"].token = i.token)
                   => (i.expires_at = None \/ i.expires_at >= now)]_vars

\* C29 witness: an accept-invite has got past its checks on an invite whose
\* expires_at is the current time.
C29_Witness ==
    /\ pc["r1"] = "flush"
    /\ \E i \in group_invites :
          /\ i.invite_id = req["r1"].invite_id
          /\ ~i.used /\ i.expires_at = now

\* ------------------------------------------------------------ overlapping deletes
\* C30: when delete-message requests for one message overlap, a request
\* that returns, all the attachment rows of the message being among those
\* it deleted, has not met an error other than a failure of the database
\* itself; it reports the message deleted only when it is the request that
\* removes the message row, so at most one request reports it and the other
\* gets None (NotFound); and after a report of deletion the message and its
\* attachment rows are gone.
C30_OverlappingDeletes ==
    [][\A p \in Procs :
          LET r == req[p]
          IN (r.op = "delete_message" /\ pc'[p] = "idle"
                 /\ get_attachments_by_message_id(message_attachments, r.key)
                        \subseteq r.deleted)
             => /\ last'.status \in {"message", "None", "OperationalError"}
                /\ last'.status = "message"
                      => /\ get_message(messages, r.key) # {}
                         /\ get_message(messages', r.key) = {}
                         /\ get_attachments_by_message_id(
                                message_attachments', r.key) = {}]_vars

====
